---- MODULE Spec2Model ----
(***************************************************************************)
(* State-machine model of taxi-zebra: the role resolution of               *)
(* ZebraBackend.push_entry and the helpers it calls (taxi_zebra/backend.py),*)
(* the role prompt of taxi_zebra/ui.py, the other methods of the backend,  *)
(* the balance command (taxi_zebra/commands.py) and to_zebra_params.       *)
(*                                                                         *)
(* Python values are records [t |-> <type name>, s |-> <str(value)>], so   *)
(* that the integer 0 and the string "0" are different values that have    *)
(* the same text on the wire.                                              *)
(***************************************************************************)
EXTENDS Integers, Sequences, FiniteSets, TLC

\* ------------------------------------------------------------------ bounds

\* The user has the roles 1..NumRoles.
NumRoles == 2

\* How often one role prompt asks again after an invalid input.
MaxInvalidInputs == 1

\* How many parameters a dict handed to to_zebra_params has at most.
MaxParams == 2

\* ----------------------------------------------------------- Python values

Digits == <<"0", "1", "2", "3", "4", "5", "6", "7", "8", "9">>

\* str(k) for a small natural number k
Dec(k) == Digits[k + 1]

Numerals == {Digits[i] : i \in 1..Len(Digits)}

\* int(s) for a numeral s
Num(s) == CHOOSE k \in 0..(Len(Digits) - 1) : Dec(k) = s

PyNone == [t |-> "NoneType", s |-> "None"]

PyInt(k) == [t |-> "int", s |-> Dec(k)]

PyStr(s) == [t |-> "str", s |-> s]

PyBool(b) == [t |-> "bool", s |-> IF b THEN "True" ELSE "False"]

\* ------------------------------------------------------------ configuration

Aliases == {"alias1", "alias2"}

RoleIds == 1..NumRoles

\* Roles of the user as the /users/me endpoint reports them: id -> name.
\* The names are such that their alphabetical order is the reverse of the
\* order of the ids.
RoleNames == <<"Role Z", "Role Y", "Role X", "Role W">>

RoleName(id) == RoleNames[id]

\* name1 <= name2 in alphabetical order
NameLeq(n1, n2) ==
    LET pos(n) == CHOOSE i \in 1..Len(RoleNames) : RoleNames[i] = n
    IN  pos(n1) >= pos(n2)

\* The third element an alias mapping may hold when the run starts: the
\* host loads it from the configuration file, as an int or as a string.
InitRoleElems ==
    {PyInt(k) : k \in 0..NumRoles} \cup {PyStr(Dec(k)) : k \in 0..NumRoles}

\* The mapping tuples an alias may start with: (project_id, activity_id) or
\* (project_id, activity_id, role_id)
InitMappings ==
    {<<PyStr("1"), PyStr("1")>>}
        \cup {<<PyStr("1"), PyStr("1"), r>> : r \in InitRoleElems}

\* The mapping of the second alias as the run starts: another activity, no role
OtherMapping == <<PyStr("1"), PyStr("2")>>

Mapping(mapping, backend) == [mapping |-> mapping, backend |-> backend]

\* -------------------------------------------------------- pure functions

\* backend.get_role_from_entry: the third element of the alias' mapping,
\* None when the alias is unknown or its mapping has two elements
get_role_from_entry(db, alias) ==
    IF alias \notin DOMAIN db
    THEN PyNone
    ELSE IF Len(db[alias].mapping) >= 3 THEN db[alias].mapping[3] ELSE PyNone

\* Mutant of to_zebra_value: no value is transformed.
to_zebra_value_Identity(value) == value

\* Mutant of to_zebra_value: a value is taken for a bool when it equals True
\* or False, as the integers 1 and 0 do.
to_zebra_value_ByEquality(value) ==
    IF value.t \in {"bool", "int"} /\ value.s \in {"True", "False", "0", "1"}
    THEN PyStr(IF value.s \in {"True", "1"} THEN "true" ELSE "false")
    ELSE value

\* to_zebra_value: a bool becomes the string 'true' or 'false', any value of
\* another type is returned as it is
to_zebra_value(value) ==
    IF value.t = "bool"
    THEN PyStr(IF value = PyBool(TRUE) THEN "true" ELSE "false")
    ELSE value

to_zebra_params(params) ==
    [param \in DOMAIN params |-> to_zebra_value(params[param])]

\* The dict _push_entry builds: dict({...}, **kwargs)
PushParameters(entry, mapping, role_id, kwargs) ==
    kwargs @@ [time |-> PyInt(1),
               project_id |-> mapping.mapping[1],
               activity_id |-> mapping.mapping[2],
               role_id |-> role_id,
               date |-> PyStr("2026-01-01"),
               description |-> PyStr("")]

\* The form body requests sends for data=<dict>: a key whose value is None is
\* left out, every other value is sent as its text
FormBody(data) ==
    {<<k, data[k].s>> : k \in {key \in DOMAIN data : data[key] # PyNone}}

\* The body of the request _push_entry posts
PushBody(entry, mapping, role_id, kwargs) ==
    FormBody(to_zebra_params(PushParameters(entry, mapping, role_id, kwargs)))

\* bool(value) of Python
Truthy(value) ==
    CASE value.t = "NoneType" -> FALSE
      [] value.t = "bool" -> value = PyBool(TRUE)
      [] value.t = "int" -> value.s # "0"
      [] OTHER -> value.s # ""

\* sorted(roles.items(), key=lambda item: item[1]): the ids of `roles`
\* (id -> name) in the alphabetical order of the names
RECURSIVE SortedByName(_)
SortedByName(roles) ==
    IF DOMAIN roles = {}
    THEN <<>>
    ELSE LET first == CHOOSE id \in DOMAIN roles :
                          \A other \in DOMAIN roles : NameLeq(roles[id], roles[other])
             rest == [id \in DOMAIN roles \ {first} |-> roles[id]]
         IN  <<first>> \o SortedByName(rest)

individual_action == PyStr("i")

cancel == PyStr("c")

\* The choices input_role hands to prompt_choices; the label of the individual
\* action is given without the ornament that follows it in the source
RoleChoices(roles) ==
    LET ids == SortedByName(roles)
    IN  [i \in 1..Len(ids) |-> <<PyInt(ids[i]), PyStr(roles[ids[i]])>>]
            \o << <<PyNone, PyStr("-----")>>,
                  <<individual_action, PyStr("Individual action"), individual_action>>,
                  <<cancel, PyStr("Cancel, skip this entry for now"), cancel>> >>

\* prompt_choices.get_choice_key; choice_pos counts from 0
get_choice_key(choice, choice_pos) ==
    IF Len(choice) >= 3
    THEN choice[3]
    ELSE IF choice[1] = PyNone THEN PyNone ELSE PyInt(choice_pos)

choices_by_key(choices) ==
    [i \in 1..Len(choices) |-> <<get_choice_key(choices[i], i - 1), choices[i]>>]

\* key in dict(pairs)
DictHas(pairs, key) == \E i \in 1..Len(pairs) : pairs[i][1] = key

\* dict(pairs)[key]: the last pair of a key is the one a dict keeps
DictGet(pairs, key) ==
    LET last == CHOOSE i \in 1..Len(pairs) :
                    /\ pairs[i][1] = key
                    /\ \A j \in (i + 1)..Len(pairs) : pairs[j][1] # key
    IN  pairs[last][2]

\* What the user may do at "Select a role": abort the input (Ctrl-C), or enter
\* a text, with or without the brackets the choices are displayed in.
Abort == [abort |-> TRUE, text |-> "", brackets |-> FALSE]

RoleInputs ==
    {Abort} \cup
    [abort : {FALSE},
     text : {Dec(k) : k \in 0..(NumRoles + 3)} \cup {"i", "c", "x", "None", ""},
     brackets : BOOLEAN]

\* click.prompt(...).lstrip('[').rstrip(']') of what the user typed
StripBrackets(input) == input.text

\* choice_id = int(choice_id), kept as text on ValueError
ParseChoiceId(text) ==
    IF text \in Numerals THEN PyInt(Num(text)) ELSE PyStr(text)

\* Mutant of prompt_choices: an input that matches no choice is not asked for
\* again, the default is returned.
prompt_choices_NoLoop(choices, default, input) ==
    LET by_key == choices_by_key(choices)
        choice_id == ParseChoiceId(StripBrackets(input))
    IN  IF ~input.abort /\ DictHas(by_key, choice_id)
        THEN [returns |-> TRUE, value |-> DictGet(by_key, choice_id)[1]]
        ELSE [returns |-> TRUE, value |-> default]

\* One round of the loop of prompt_choices: `returns` tells whether the
\* function returns (with `value`) or prompts again.
prompt_choices(choices, default, input) ==
    LET by_key == choices_by_key(choices)
        choice_id == ParseChoiceId(StripBrackets(input))
    IN  IF input.abort
        THEN [returns |-> TRUE, value |-> default]
        ELSE IF DictHas(by_key, choice_id)
             THEN [returns |-> TRUE, value |-> DictGet(by_key, choice_id)[1]]
             ELSE [returns |-> FALSE, value |-> PyNone]

\* Mutant of input_role: "cancel" does not raise CancelInput and is taken for
\* an individual action.
input_role_CancelIgnored(roles, input) ==
    LET answer == prompt_choices(RoleChoices(roles), cancel, input)
    IN  CASE ~answer.returns -> [kind |-> "again", value |-> PyNone]
          [] answer.returns /\ answer.value \in {cancel, individual_action} ->
                [kind |-> "return", value |-> PyNone]
          [] OTHER -> [kind |-> "return", value |-> answer.value]

\* One round of input_role: raises CancelInput, returns the selected role id
\* (None for an individual action), or prompts again.
input_role(roles, input) ==
    LET answer == prompt_choices(RoleChoices(roles), cancel, input)
    IN  CASE ~answer.returns -> [kind |-> "again", value |-> PyNone]
          [] answer.returns /\ answer.value = cancel ->
                [kind |-> "CancelInput", value |-> PyNone]
          [] answer.returns /\ answer.value = individual_action ->
                [kind |-> "return", value |-> PyNone]
          [] OTHER -> [kind |-> "return", value |-> answer.value]

\* user_roles[role_id] exists: the keys of user_roles are ints
HasRole(roles, role_id) ==
    /\ role_id.t = "int"
    /\ Num(role_id.s) \in DOMAIN roles

\* ------------------------------------------------- ui.py: the role prompt

\* A role as ui.py reads it: role.id, role.parent_id, role.full_name
Role(id) ==
    [id |-> PyInt(id), parent_id |-> PyInt(0), full_name |-> RoleName(id)]

\* The role lists a prompt may be given: the sequences of distinct roles
RoleLists ==
    {roles \in UNION {[1..n -> {Role(id) : id \in RoleIds}] : n \in 0..NumRoles} :
        \A i, j \in 1..Len(roles) : i # j => roles[i] # roles[j]}

\* Option = namedtuple('Option', ['value', 'label', 'key', 'style']), key=None
\* by default; the style changes nothing but the display
Option(value, label, key) == [value |-> value, label |-> label, key |-> key]

\* input_role.role_to_option
role_to_option(role) == Option(role, role.full_name, PyNone)

\* Mutant of SortedByFullName: the roles are listed in the order given.
SortedByFullName_Unsorted(roles) == roles

\* sorted(roles, key=lambda role: role.full_name); the sort is stable
RECURSIVE SortedByFullName(_)
SortedByFullName(roles) ==
    IF roles = <<>>
    THEN <<>>
    ELSE LET first == CHOOSE i \in 1..Len(roles) :
                          /\ \A j \in 1..Len(roles) :
                                NameLeq(roles[i].full_name, roles[j].full_name)
                          /\ \A j \in 1..(i - 1) :
                                roles[j].full_name # roles[i].full_name
             rest == SubSeq(roles, 1, first - 1) \o SubSeq(roles, first + 1, Len(roles))
         IN  <<roles[first]>> \o SortedByFullName(rest)

\* The options input_role of ui.py hands to prompt_options
RoleOptions(roles) ==
    LET sorted_roles == SortedByFullName(roles)
    IN  [i \in 1..Len(sorted_roles) |-> role_to_option(sorted_roles[i])]
            \o <<Option(PyNone, "-----", PyNone),
                 Option(individual_action, "Individual action", individual_action),
                 Option(cancel, "Cancel, skip this entry for now", cancel)>>

\* default_option = role_to_option(default_role) if default_role else None
default_option(default_role) ==
    IF default_role # PyNone THEN role_to_option(default_role) ELSE PyNone

\* prompt_options.get_option_key; pos counts from 0
get_option_key(pos, option) ==
    IF option.key # PyNone THEN option.key ELSE PyInt(pos)

options_by_key(options) ==
    [i \in 1..Len(options) |-> <<get_option_key(i - 1, options[i]), options[i]>>]

\* Mutant of default_option_id: the default is not looked up.
default_option_id_None(options, default) == PyNone

\* The key of the first option whose value is the default's, None without a
\* default or when no option has that value (StopIteration)
default_option_id(options, default) ==
    LET by_key == options_by_key(options)
        found == {i \in 1..Len(by_key) : by_key[i][2].value = default.value}
    IN  IF default # PyNone /\ found # {}
        THEN by_key[CHOOSE i \in found : \A j \in found : i <= j][1]
        ELSE PyNone

\* "Select a role{}".format(prompt_message_default), as the pieces it is built of
prompt_message(default) ==
    IF default # PyNone
    THEN <<"Select a role", " (leave empty for ", default.label, ")">>
    ELSE <<"Select a role">>

\* Mutant of click_prompt: an empty input stands for the first option.
click_prompt_EmptyIsFirst(default_id, input) ==
    IF input.text = "" /\ ~input.brackets THEN "0" ELSE StripBrackets(input)

\* click.prompt(prompt_message, default=str(default_option_id) if
\* default_option_id is not None else None).lstrip('[').rstrip(']'): an empty
\* input gives the default; without a default click asks again by itself,
\* which "" stands for
click_prompt(default_id, input) ==
    IF input.text = "" /\ ~input.brackets /\ default_id # PyNone
    THEN default_id.s
    ELSE StripBrackets(input)

\* One round of the loop of prompt_options: it returns the value of the
\* option of the key entered, asks again, or is left by click's Abort.
prompt_options(options, default, input) ==
    LET by_key == options_by_key(options)
        option_id == ParseChoiceId(click_prompt(default_option_id(options, default), input))
    IN  IF input.abort
        THEN [kind |-> "Abort", value |-> PyNone]
        ELSE IF DictHas(by_key, option_id)
             THEN [kind |-> "return", value |-> DictGet(by_key, option_id).value]
             ELSE [kind |-> "again", value |-> PyNone]

\* One round of input_role of ui.py: raises CancelInput, returns the selected
\* Role (None for an individual action), or prompts again.
ui_input_role(roles, default_role, input) ==
    LET answer == prompt_options(RoleOptions(roles), default_option(default_role), input)
        selected_role == IF answer.kind = "Abort" THEN cancel ELSE answer.value
    IN  CASE answer.kind = "again" -> [kind |-> "again", value |-> PyNone]
          [] answer.kind # "again" /\ selected_role = cancel ->
                [kind |-> "CancelInput", value |-> PyNone]
          [] answer.kind # "again" /\ selected_role = individual_action ->
                [kind |-> "return", value |-> PyNone]
          [] OTHER -> [kind |-> "return", value |-> selected_role]

\* ------------------------------------------------------ backend.py: URLs

\* self.username of the backend
username == "alice"

\* A URL is its path, as the pieces it is formatted from, and its query
\* string, as the set of its <<parameter, value>> pairs. The scheme, host,
\* port and base path get_full_url puts in front are the same for every URL
\* of a backend and are left out.
get_full_url(url) == [path |-> url, query |-> {}]

\* Mutant of append_token: the token is sent under another parameter name.
append_token_AsUser(url) ==
    [url EXCEPT !.query = @ \cup {<<"user", username>>}]

\* append_token: qs = parse_qs(query); qs['token'] = self.username; the URL is
\* rebuilt with urlencode(qs): a token the query held is replaced
append_token(url) ==
    [url EXCEPT !.query =
        {pair \in @ : pair[1] # "token"} \cup {<<"token", username>>}]

\* get_api_url: the URL of '/api/v2{url}', with the token when the backend has
\* no password
get_api_url(url, has_password) ==
    LET absolute_url == get_full_url(<<"/api/v2", url>>)
    IN  IF ~has_password THEN append_token(absolute_url) ELSE absolute_url

\* authenticate: login_url = self.get_full_url('/login/user/%s.json' % self.username)
login_url == get_full_url(<<"/login/user/", username, ".json">>)

\* session.get(url, params=...): requests adds the parameters to the query
WithParams(url, params) == [url EXCEPT !.query = @ \cup params]

\* ----------------------------------------------------------------- server

\* What the remote service may answer to a timesheet push: `ok` is
\* bool(response) (an HTTP status below 400), `json` tells whether the body
\* parses as JSON, `success` is the 'success' field ("absent" when the body
\* has none), `error` the 'error' field ("" when the body has none),
\* `messages` the texts of the 'messages' field.
Response(ok, json, errorCode, success, error) ==
    [ok |-> ok, json |-> json, errorCode |-> errorCode, success |-> success,
     error |-> error, messages |-> <<>>]

\* The response with the server messages `messages`
WithMessages(response, messages) == [response EXCEPT !.messages = messages]

Accepted == Response(TRUE, TRUE, "", "true", "")

RoleNeeded == Response(FALSE, TRUE, "role_needed", "absent", "")

Responses ==
    {Accepted,
     WithMessages(Accepted, <<"Hello world">>),
     RoleNeeded,
     Response(FALSE, TRUE, "role_needed", "false", "Role needed"),
     Response(FALSE, TRUE, "role_invalid", "absent", ""),
     Response(FALSE, TRUE, "other", "false", "Some error"),
     Response(FALSE, TRUE, "", "false", ""),
     Response(FALSE, TRUE, "", "absent", ""),
     Response(TRUE, TRUE, "", "false", "Some error"),
     Response(TRUE, TRUE, "role_needed", "true", ""),
     Response(FALSE, FALSE, "", "absent", "")}

\* ------------------------------------------------------------------ state

VARIABLES
    aliases_database,   \* taxi.aliases.aliases_database: alias -> Mapping
    settings,           \* the aliases of the settings object (settings.add_alias)
    config,             \* the aliases in the configuration file (settings.write_config)
    password,           \* whether the backend is configured with a password
    authenticated,      \* ZebraBackend._authenticated
    user_info,          \* ZebraBackend._user_info: <<>> for None, else <<roles>>
    pc,                 \* where the running push_entry call stands
    entry,              \* the alias of the entry being pushed
    alias_role_id,      \* push_entry's local alias_role_id
    role_id,            \* push_entry's local role_id
    requests,           \* the requests the running (or last) call has sent
    responses,          \* the answers to its timesheet pushes
    role_prompts,       \* how often it has called input_role
    invalid_inputs,     \* how often the open role prompt has asked again
    persist_prompts,    \* how often it has shown the persistence prompt
    selected_input,     \* what the user entered to end its role prompt
    persist_answer,     \* what the user answered at its persistence prompt
    outcome,            \* how the last call ended
    at_call,            \* the aliases and the history as the call started
    last_answer,        \* per alias, the last 'y' or 'N' at the persistence prompt
    shown               \* the server messages the running (or last) call has displayed

\* The state of a call of prompt_role of ui.py
VARIABLES
    prompt_pc,          \* where the running prompt_role call stands
    prompt_roles,       \* the role list it is given: the roles of the user
    latest,             \* the role id the latest-role endpoint reported
    default_role,       \* the default_role it was given
    reprompts,          \* how often its role prompt has asked again
    prompt_input,       \* what the user did to end its role prompt
    selected_role,      \* what input_role returned or raised
    create_alias,       \* what the user answered at its persistence prompt
    retry_body          \* the body of the push that follows it

\* The local timesheet of the host and the dict handed to to_zebra_params
VARIABLES
    timesheet,          \* the hours of the local entries that are not pushed yet
    params,             \* the dict to_zebra_params is called with
    zebra_params        \* the dict it returned, <<>> before the call

other_vars == <<timesheet, params, zebra_params>>

prompt_vars ==
    <<prompt_pc, prompt_roles, latest, default_role, reprompts, prompt_input,
      selected_role, create_alias, retry_body>>

vars ==
    <<aliases_database, settings, config, password, authenticated, user_info,
      pc, entry, alias_role_id, role_id, requests, responses, role_prompts,
      invalid_inputs, persist_prompts, selected_input, persist_answer, outcome,
      at_call, last_answer, shown, prompt_vars, other_vars>>

backend_vars == <<password, authenticated, user_info>>

alias_vars == <<aliases_database, settings, config, last_answer>>

\* The roles /users/me reports: {int(key): value ...}
ServerRoles == [id \in RoleIds |-> RoleName(id)]

user_roles == user_info[1]

NoOutcome == [exc |-> "", value |-> ""]

Returned(value) == [exc |-> "return", value |-> value]

Raised(exc, message) == [exc |-> exc, value |-> message]

NoAnswer == [answer |-> "", role |-> PyNone]

\* No input yet
NoInput == [abort |-> FALSE, text |-> "", brackets |-> FALSE]

\* What is kept of the input that ended a prompt: the text between the
\* brackets, if the user typed any
Entered(input) == [input EXCEPT !.brackets = FALSE]

\* The call before was not one for the same alias that left a role unpersisted
NoPrevious == [declined |-> FALSE, pushed |-> PyNone]

\* What the call that has just ended leaves to a call for `alias`: whether it
\* was a call for the same alias in which the user answered 'n' at the
\* persistence prompt, and the role its entry was pushed with when it returned
Previous(alias) ==
    IF persist_answer = "n" /\ entry = alias
    THEN [declined |-> TRUE,
          pushed |-> IF outcome.exc = "return" THEN role_id ELSE PyNone]
    ELSE NoPrevious

Snapshot(alias) ==
    [aliases_database |-> aliases_database, settings |-> settings,
     config |-> config, last_answer |-> last_answer, previous |-> Previous(alias)]

\* input_role has neither returned nor raised
NoSelection == [kind |-> "", value |-> PyNone]

\* No call of prompt_role is running, none has run; `roles` are the roles of
\* the user
PromptIdle(roles) ==
    /\ prompt_pc = "idle"
    /\ prompt_roles = roles
    /\ latest = PyNone
    /\ default_role = PyNone
    /\ reprompts = 0
    /\ prompt_input = NoInput
    /\ selected_role = NoSelection
    /\ create_alias = ""
    /\ retry_body = {}

\* The host, the aliases it has loaded and the backend it has constructed
HostInit ==
    /\ aliases_database \in
          {[a \in Aliases |-> Mapping(IF a = "alias1" THEN m ELSE OtherMapping, "zebra")] :
              m \in InitMappings}
    /\ settings = aliases_database
    /\ config = aliases_database
    /\ password \in BOOLEAN
    /\ authenticated = FALSE
    /\ user_info = <<>>
    /\ pc = "idle"
    /\ entry = "alias1"
    /\ alias_role_id = PyNone
    /\ role_id = PyNone
    /\ requests = <<>>
    /\ responses = <<>>
    /\ role_prompts = 0
    /\ invalid_inputs = 0
    /\ persist_prompts = 0
    /\ selected_input = NoInput
    /\ persist_answer = ""
    /\ outcome = NoOutcome
    /\ last_answer = [a \in Aliases |-> NoAnswer]
    /\ at_call = Snapshot(entry)
    /\ shown = <<>>

\* The local timesheet: per alias, the hours of the entries that are neither
\* pushed nor ignored
OneEntryEach == [a \in Aliases |-> 1]

\* to_zebra_params has not been called
NoParams == params = <<>> /\ zebra_params = <<>>

Init == HostInit /\ PromptIdle(<<>>) /\ timesheet = OneEntryEach /\ NoParams

\* ---------------------------------------------------------------- actions

\* The call ends. After a return or a PushEntryFailed the host goes on with
\* the next entry; any other exception is not one the backend interface
\* declares, it leaves the push loop and the run ends.
End(result) ==
    /\ pc' = IF result.exc \in {"return", "PushEntryFailed"} THEN "idle" ELSE "crashed"
    /\ outcome' = result

Skipped == Raised("PushEntryFailed", "Skipped")

\* The host calls push_entry(date, entry) for an entry of alias `alias`.
PushEntry(alias) ==
    /\ pc = "idle"
    /\ pc' = "authenticate"
    /\ entry' = alias
    /\ alias_role_id' = PyNone
    /\ role_id' = PyNone
    /\ requests' = <<>>
    /\ responses' = <<>>
    /\ role_prompts' = 0
    /\ invalid_inputs' = 0
    /\ persist_prompts' = 0
    /\ selected_input' = NoInput
    /\ persist_answer' = ""
    /\ outcome' = NoOutcome
    /\ at_call' = Snapshot(alias)
    /\ shown' = <<>>
    /\ UNCHANGED <<backend_vars, alias_vars>>
    /\ UNCHANGED <<prompt_vars, other_vars>>

\* authenticate: parameters_dict, the form the login request posts
LoginBody == {<<"username", username>>, <<"password", "secret">>}

\* authenticate: self._session.post(login_url, data=parameters_dict); `json`
\* tells whether the answer it gets parses as JSON
LoginRequest(json) ==
    [kind |-> "login", url |-> login_url, body |-> LoginBody, json |-> json]

\* authenticate() has nothing to do
LoggedIn == authenticated \/ ~password

\* @needs_authentication of push_entry: authenticate(). `json` tells whether
\* the answer to the login request parses as JSON.
Authenticate(json) ==
    /\ pc = "authenticate"
    /\ IF LoggedIn
       THEN /\ pc' = "get_user_info"
            /\ UNCHANGED <<authenticated, requests, outcome>>
       ELSE /\ requests' = Append(requests, LoginRequest(json))
            /\ IF json
               THEN /\ authenticated' = TRUE
                    /\ pc' = "get_user_info"
                    /\ UNCHANGED outcome
               ELSE /\ End(Raised("TaxiException",
                                  "Login failed, please check your credentials"))
                    /\ UNCHANGED authenticated
    /\ UNCHANGED <<password, user_info, entry, alias_role_id, role_id, responses,
                   role_prompts, invalid_inputs, persist_prompts, selected_input,
                   persist_answer, at_call, alias_vars>>
    /\ UNCHANGED <<shown, prompt_vars, other_vars>>

\* user_roles = self.get_user_info()['roles'], then
\* role_id = alias_role_id = get_role_from_entry(entry). `json` tells whether
\* the answer of /users/me parses as JSON.
GetUserInfo(json) ==
    /\ pc = "get_user_info"
    /\ IF user_info # <<>>
       THEN /\ pc' = "push"
            /\ UNCHANGED <<user_info, requests, outcome>>
       ELSE /\ requests' = Append(requests,
                    [kind |-> "user_info",
                     url |-> get_api_url("/users/me", password), body |-> {}])
            /\ IF json
               THEN /\ user_info' = <<ServerRoles>>
                    /\ pc' = "push"
                    /\ UNCHANGED outcome
               ELSE /\ End(Raised("ValueError", "No JSON object could be decoded"))
                    /\ UNCHANGED user_info
    /\ IF pc' = "push"
       THEN /\ alias_role_id' = get_role_from_entry(aliases_database, entry)
            /\ role_id' = get_role_from_entry(aliases_database, entry)
       ELSE UNCHANGED <<alias_role_id, role_id>>
    /\ UNCHANGED <<password, authenticated, entry, responses, role_prompts,
                   invalid_inputs, persist_prompts, selected_input, persist_answer,
                   at_call, alias_vars>>
    /\ UNCHANGED <<shown, prompt_vars, other_vars>>

\* The literal 0 an alias holds as role when the user never wants to be asked
NeverAsk == PyInt(0)

\* Mutant of FirstRoleId: the first push never carries the role of the alias.
FirstRoleId_Dropped(alias_role) == PyNone

\* role_id=alias_role_id if alias_role_id != 0 else None
FirstRoleId(alias_role) == IF alias_role # NeverAsk THEN alias_role ELSE PyNone

\* show_response_messages: the texts of the messages of the response, which
\* it displays one by one
show_response_messages(response) == response.messages

\* What the call has displayed once _push_entry has got `response`: nothing
\* more when it raises, the messages of the response when it returns
Shown(response, raises) ==
    IF raises # NoOutcome THEN shown ELSE shown \o show_response_messages(response)

\* What _push_entry raises on the answer `response`, NoOutcome when it returns
PushRaises(response) ==
    IF ~response.json
    THEN Raised("PushEntryFailed",
                "Got a non-JSON response when trying to push timesheet")
    ELSE IF ~response.ok /\ response.errorCode = "role_invalid"
         THEN Raised("PushEntryFailed", "Invalid role")
         ELSE NoOutcome

\* Mutant of NeedsRole: the error code is compared with a code the server
\* does not send.
NeedsRole_WrongCode(response) == ~response.ok /\ response.errorCode = "role_required"

\* Mutant of NeedsRole: the error code is read without `if not response`.
NeedsRole_IgnoresStatus(response) == response.errorCode = "role_needed"

\* if not response: if response_json.get('errorCode') == 'role_needed'
NeedsRole(response) == ~response.ok /\ response.errorCode = "role_needed"

\* The end of push_entry: the check of 'success' and the returned text
Finish(response, role, roles) ==
    IF response.success = "absent"
    THEN Raised("KeyError", "success")
    ELSE IF response.success # "true"
         THEN Raised("PushEntryFailed",
                     IF response.error = "" THEN "Unknown error" ELSE response.error)
         ELSE IF ~Truthy(role)
              THEN Returned("individual action")
              ELSE IF HasRole(roles, role)
                   THEN Returned(roles[Num(role.s)])
                   ELSE Raised("KeyError", role.s)

\* response = self._push_entry(date, entry, role_id=...) and what follows it
\* when no role is asked for
PushFirst(response) ==
    /\ pc = "push"
    /\ LoggedIn
    /\ requests' = Append(requests,
          [kind |-> "push",
           url |-> get_api_url("/timesheets/", password),
           body |-> PushBody(entry, aliases_database[entry],
                             FirstRoleId(alias_role_id), <<>>)])
    /\ responses' = Append(responses, response)
    /\ shown' = Shown(response, PushRaises(response))
    /\ IF PushRaises(response) # NoOutcome
       THEN /\ End(PushRaises(response))
            /\ UNCHANGED role_prompts
       ELSE IF NeedsRole(response)
            THEN /\ pc' = "input_role"
                 /\ role_prompts' = role_prompts + 1
                 /\ UNCHANGED outcome
            ELSE /\ End(Finish(response, role_id, user_roles))
                 /\ UNCHANGED role_prompts
    /\ UNCHANGED <<backend_vars, alias_vars, entry, alias_role_id, role_id,
                   invalid_inputs, persist_prompts, selected_input, persist_answer,
                   at_call>>
    /\ UNCHANGED <<prompt_vars, other_vars>>

\* Mutant of AsksToPersist: the never-ask role of the alias is not looked at.
AsksToPersist_Always(role, alias_role) == role # PyNone

\* if role_id is not None and alias_role_id != 0
AsksToPersist(role, alias_role) == role # PyNone /\ alias_role # NeverAsk

\* The user answers the role prompt of input_role(user_roles).
InputRole(input) ==
    /\ pc = "input_role"
    /\ LET result == input_role(user_roles, input)
       IN  CASE result.kind = "again" ->
                  /\ invalid_inputs < MaxInvalidInputs
                  /\ invalid_inputs' = invalid_inputs + 1
                  /\ UNCHANGED <<pc, role_id, persist_prompts, outcome,
                                 selected_input>>
             [] result.kind = "CancelInput" ->
                  /\ End(Skipped)
                  /\ invalid_inputs' = 0
                  /\ selected_input' = Entered(input)
                  /\ UNCHANGED <<role_id, persist_prompts>>
             [] OTHER ->
                  /\ role_id' = result.value
                  /\ IF AsksToPersist(result.value, alias_role_id)
                     THEN /\ pc' = "create_alias"
                          /\ persist_prompts' = persist_prompts + 1
                     ELSE /\ pc' = "retry"
                          /\ UNCHANGED persist_prompts
                  /\ invalid_inputs' = 0
                  /\ selected_input' = Entered(input)
                  /\ UNCHANGED outcome
    /\ UNCHANGED <<backend_vars, alias_vars, entry, alias_role_id, requests,
                   responses, role_prompts, persist_answer, at_call>>
    /\ UNCHANGED <<shown, prompt_vars, other_vars>>

\* Mutant of update_alias_mapping: the new mapping is not stored.
update_alias_mapping_NotStored(db, alias, new_mapping) == db

\* Mutant of update_alias_mapping: the mapping of every alias is overridden.
update_alias_mapping_Every(db, alias, new_mapping) ==
    [a \in DOMAIN db |-> Mapping(new_mapping, db[a].backend)]

\* utils/backend update_alias_mapping: the alias database with the mapping of
\* `alias` overridden, its backend kept
update_alias_mapping(db, alias, new_mapping) ==
    [db EXCEPT ![alias] = Mapping(new_mapping, db[alias].backend)]

\* aliases_database[entry.alias].mapping[:2] + (role,)
WithRole(mapping, role) == SubSeq(mapping, 1, 2) \o <<role>>

PersistAnswers == {"y", "n", "N", "abort"}

\* Mutant of Persists: every answer but 'y' stores the never-ask role.
Persists_UnlessYes(answer) == TRUE

\* if create_alias == 'y': ... elif create_alias == 'N': ...
Persists(answer) == answer \in {"y", "N"}

\* The user answers "Make the alias always use this role?"; `written` tells
\* whether settings.write_config() succeeds.
CreateAlias(answer, written) ==
    /\ pc = "create_alias"
    /\ persist_answer' = answer
    /\ CASE answer = "abort" ->
              /\ End(Skipped)
              /\ UNCHANGED alias_vars
         [] ~Persists(answer) ->
              /\ pc' = "retry"
              /\ UNCHANGED <<alias_vars, outcome>>
         [] OTHER ->
              LET role == IF answer = "y" THEN role_id ELSE NeverAsk
                  new_mapping == WithRole(aliases_database[entry].mapping, role)
              IN  /\ aliases_database' =
                        update_alias_mapping(aliases_database, entry, new_mapping)
                  /\ settings' = update_alias_mapping(settings, entry, new_mapping)
                  /\ last_answer' = [last_answer EXCEPT ![entry] =
                                        [answer |-> answer, role |-> role_id]]
                  /\ IF written
                     THEN /\ config' = settings'
                          /\ pc' = "retry"
                          /\ UNCHANGED outcome
                     ELSE /\ End(Raised("IOError", "write_config"))
                          /\ UNCHANGED config
    /\ UNCHANGED <<backend_vars, entry, alias_role_id, role_id, requests,
                   responses, role_prompts, invalid_inputs, persist_prompts,
                   selected_input, at_call>>
    /\ UNCHANGED <<shown, prompt_vars, other_vars>>

\* Mutant of RetryKwargs: the flag is inverted.
RetryKwargs_Inverted(role) == [individual_action |-> PyBool(role # PyNone)]

\* The keyword arguments of the retry: individual_action=role_id is None
RetryKwargs(role) == [individual_action |-> PyBool(role = PyNone)]

\* response = self._push_entry(date, entry, role_id=role_id,
\* individual_action=role_id is None) and the end of push_entry
Retry(response) ==
    /\ pc = "retry"
    /\ LoggedIn
    /\ requests' = Append(requests,
          [kind |-> "push",
           url |-> get_api_url("/timesheets/", password),
           body |-> PushBody(entry, aliases_database[entry], role_id,
                             RetryKwargs(role_id))])
    /\ responses' = Append(responses, response)
    /\ shown' = Shown(response, PushRaises(response))
    /\ IF PushRaises(response) # NoOutcome
       THEN End(PushRaises(response))
       ELSE End(Finish(response, role_id, user_roles))
    /\ UNCHANGED <<backend_vars, alias_vars, entry, alias_role_id, role_id,
                   role_prompts, invalid_inputs, persist_prompts, selected_input,
                   persist_answer, at_call>>
    /\ UNCHANGED <<prompt_vars, other_vars>>

Next ==
    \/ \E alias \in Aliases : PushEntry(alias)
    \/ \E json \in BOOLEAN : Authenticate(json)
    \/ \E json \in BOOLEAN : GetUserInfo(json)
    \/ \E response \in Responses : PushFirst(response)
    \/ \E input \in RoleInputs : InputRole(input)
    \/ \E answer \in PersistAnswers, written \in BOOLEAN : CreateAlias(answer, written)
    \/ \E response \in Responses : Retry(response)

Spec == Init /\ [][Next]_vars

\* ------------------------------------------ the role resolution of ui.py

\* utils.get_role_id_from_alias: the third element of the alias' mapping, None
\* when the alias is unknown or its mapping has two elements
get_role_id_from_alias(db, alias) ==
    IF alias \notin DOMAIN db
    THEN PyNone
    ELSE IF Len(db[alias].mapping) >= 3 THEN db[alias].mapping[3] ELSE PyNone

\* roles.NEVER_SAVE_ROLE_ID: the role an alias holds when the user never wants
\* to be asked, "0"
NEVER_SAVE_ROLE_ID == PyStr("0")

\* What the latest-role endpoint may report for the activity of an entry: no
\* role, a role of the user, or a role the user does not have
LatestRoles == {PyNone} \cup {PyInt(id) : id \in 1..(NumRoles + 1)}

\* The default role push_entry hands to prompt_role: the role of the list
\* with the id the endpoint reported, None when it reported none or when the
\* list has no such role
DefaultRole(roles, latest_id) ==
    LET found == {i \in 1..Len(roles) : roles[i].id = latest_id}
    IN  IF found = {} THEN PyNone ELSE roles[CHOOSE i \in found : TRUE]

hosted_vars ==
    <<backend_vars, pc, alias_role_id, role_id, requests, responses,
      role_prompts, invalid_inputs, persist_prompts, selected_input,
      persist_answer, outcome, at_call, last_answer, shown>>

\* push_entry, its push rejected for the role, calls
\* prompt_role(entry, roles, context, default_role=...) for the next entry of
\* the alias `entry`; `latest_id` is what the latest-role endpoint reported
\* for its activity.
PromptRole(latest_id) ==
    /\ prompt_pc = "idle"
    /\ prompt_pc' = "input_role"
    /\ latest' = latest_id
    /\ default_role' = DefaultRole(prompt_roles, latest_id)
    /\ reprompts' = 0
    /\ prompt_input' = NoInput
    /\ selected_role' = NoSelection
    /\ create_alias' = ""
    /\ retry_body' = {}
    /\ UNCHANGED <<hosted_vars, other_vars, aliases_database, settings, config, entry,
                   prompt_roles>>

\* Mutant of AsksToSave: the never-ask role of the alias is not looked at.
AsksToSave_Always(role, alias_role) == role # PyNone

\* if role and get_role_id_from_alias(entry.alias) != NEVER_SAVE_ROLE_ID
AsksToSave(role, alias_role) == role # PyNone /\ alias_role # NEVER_SAVE_ROLE_ID

\* prompt_role: the user answers the role prompt of
\* input_role(roles, project_team, default_role=default_role).
UiInputRole(input) ==
    /\ prompt_pc = "input_role"
    /\ LET result == ui_input_role(prompt_roles, default_role, input)
       IN  CASE result.kind = "again" ->
                  /\ reprompts < MaxInvalidInputs
                  /\ reprompts' = reprompts + 1
                  /\ UNCHANGED <<prompt_pc, prompt_input, selected_role>>
             [] result.kind = "CancelInput" ->
                  /\ prompt_pc' = "idle"
                  /\ prompt_input' = Entered(input)
                  /\ selected_role' = result
                  /\ UNCHANGED reprompts
             [] OTHER ->
                  /\ prompt_pc' =
                        IF AsksToSave(result.value,
                                      get_role_id_from_alias(aliases_database, entry))
                        THEN "create_alias"
                        ELSE "retry"
                  /\ prompt_input' = Entered(input)
                  /\ selected_role' = result
                  /\ UNCHANGED reprompts
    /\ UNCHANGED <<hosted_vars, other_vars, aliases_database, settings, config, entry,
                   prompt_roles, latest, default_role, create_alias, retry_body>>

\* prompt_role: the user answers "Make the alias always use this role?";
\* `written` tells whether settings.write_config() succeeds. An aborted input
\* raises PushEntryFailed("Skipped"); a failed write leaves prompt_role by an
\* exception the backend interface does not declare, and the run ends.
UiCreateAlias(answer, written) ==
    /\ prompt_pc = "create_alias"
    /\ create_alias' = answer
    /\ CASE answer = "abort" ->
              /\ prompt_pc' = "idle"
              /\ UNCHANGED <<aliases_database, settings, config>>
         [] answer = "n" ->
              /\ prompt_pc' = "retry"
              /\ UNCHANGED <<aliases_database, settings, config>>
         [] OTHER ->
              LET role == IF answer = "y"
                          THEN PyStr(selected_role.value.id.s)
                          ELSE NEVER_SAVE_ROLE_ID
                  new_mapping == WithRole(aliases_database[entry].mapping, role)
              IN  /\ aliases_database' =
                        update_alias_mapping(aliases_database, entry, new_mapping)
                  /\ settings' = update_alias_mapping(settings, entry, new_mapping)
                  /\ IF written
                     THEN /\ config' = settings'
                          /\ prompt_pc' = "retry"
                     ELSE /\ prompt_pc' = "crashed"
                          /\ UNCHANGED config
    /\ UNCHANGED <<hosted_vars, other_vars, entry, prompt_roles, latest, default_role,
                   reprompts, prompt_input, selected_role, retry_body>>

\* The id push_entry sends for the role prompt_role returned, None for None
RoleIdOf(role) == IF role = PyNone THEN PyNone ELSE role.id

\* push_entry sends the retry push with the role prompt_role returned.
UiRetry ==
    /\ prompt_pc = "retry"
    /\ prompt_pc' = "idle"
    /\ retry_body' = PushBody(entry, aliases_database[entry],
                              RoleIdOf(selected_role.value),
                              RetryKwargs(RoleIdOf(selected_role.value)))
    /\ UNCHANGED <<hosted_vars, other_vars, aliases_database, settings, config, entry,
                   prompt_roles, latest, default_role, reprompts, prompt_input,
                   selected_role, create_alias>>

NextUi ==
    \/ \E latest_id \in LatestRoles : PromptRole(latest_id)
    \/ \E input \in RoleInputs : UiInputRole(input)
    \/ \E answer \in PersistAnswers, written \in BOOLEAN : UiCreateAlias(answer, written)
    \/ UiRetry

\* The run starts with a backend that needs no login; the user has any list
\* of roles
InitUi ==
    /\ HostInit
    /\ ~password
    /\ \E roles \in RoleLists : PromptIdle(roles)
    /\ timesheet = OneEntryEach
    /\ NoParams

SpecUi == InitUi /\ [][NextUi]_vars

\* ------------------------------ the other operations of a backend instance

\* What a method of the backend has done when it returns or raises: the
\* fields of the backend, the requests it has sent, and the exception it has
\* raised (NoOutcome when it returns)
Called == [authenticated |-> authenticated, user_info |-> user_info,
           sent |-> <<>>, raised |-> NoOutcome]

UserInfoRequest ==
    [kind |-> "user_info", url |-> get_api_url("/users/me", password), body |-> {}]

\* The week balance asks the timesheets of
Week == {<<"start_date", "2026-01-05">>, <<"end_date", "2026-01-11">>}

\* Mutant of TimesheetsRequest: the request is a timesheet push.
TimesheetsRequest_Push ==
    [kind |-> "push", url |-> get_api_url("/timesheets/", password),
     body |-> Week]

\* get_timesheets: session.get(timesheet_url, params=request_params)
TimesheetsRequest ==
    [kind |-> "timesheets",
     url |-> WithParams(get_api_url("/timesheets", password), Week),
     body |-> {}]

ProjectsRequest ==
    [kind |-> "projects", url |-> get_api_url("/projects/", password), body |-> {}]

\* Mutant of authenticate: a successful login is not remembered.
authenticate_Forgets(call, json) ==
    IF call.raised # NoOutcome \/ call.authenticated \/ ~password
    THEN call
    ELSE [call EXCEPT !.sent = Append(@, LoginRequest(json)),
                      !.raised = IF json THEN NoOutcome
                                 ELSE Raised("TaxiException",
                                             "Login failed, please check your credentials")]

\* Mutant of authenticate: the answer to the login request is not looked at.
authenticate_Unchecked(call, json) ==
    IF call.raised # NoOutcome \/ call.authenticated \/ ~password
    THEN call
    ELSE [call EXCEPT !.authenticated = TRUE, !.sent = Append(@, LoginRequest(json))]

\* authenticate: nothing when the backend is authenticated or has no
\* password; else the login request, after which the backend is authenticated
\* unless the answer is not JSON (`json`), which raises TaxiException
authenticate(call, json) ==
    IF call.raised # NoOutcome \/ call.authenticated \/ ~password
    THEN call
    ELSE [call EXCEPT !.authenticated = json,
                      !.sent = Append(@, LoginRequest(json)),
                      !.raised = IF json THEN NoOutcome
                                 ELSE Raised("TaxiException",
                                             "Login failed, please check your credentials")]

\* Mutant of get_user_info: the user info is fetched on every call.
get_user_info_Uncached(call, login_json, json) ==
    LET c == authenticate(call, login_json)
    IN  IF c.raised # NoOutcome
        THEN c
        ELSE [c EXCEPT !.user_info = IF json THEN <<ServerRoles>> ELSE @,
                       !.sent = Append(@, UserInfoRequest),
                       !.raised = IF json THEN NoOutcome
                                  ELSE Raised("ValueError",
                                              "No JSON object could be decoded")]

\* @needs_authentication get_user_info: the cached user info when there is
\* one, else the answer of /users/me, which it caches
get_user_info(call, login_json, json) ==
    LET c == authenticate(call, login_json)
    IN  IF c.raised # NoOutcome \/ c.user_info # <<>>
        THEN c
        ELSE [c EXCEPT !.user_info = IF json THEN <<ServerRoles>> ELSE @,
                       !.sent = Append(@, UserInfoRequest),
                       !.raised = IF json THEN NoOutcome
                                  ELSE Raised("ValueError",
                                              "No JSON object could be decoded")]

\* @needs_authentication get_timesheets(start_date, end_date)
get_timesheets(call, login_json, json) ==
    LET c == authenticate(call, login_json)
    IN  IF c.raised # NoOutcome
        THEN c
        ELSE [c EXCEPT !.sent = Append(@, TimesheetsRequest),
                       !.raised = IF json THEN NoOutcome
                                  ELSE Raised("ValueError",
                                              "No JSON object could be decoded")]

\* @needs_authentication get_projects
get_projects(call, login_json, json) ==
    LET c == authenticate(call, login_json)
    IN  IF c.raised # NoOutcome
        THEN c
        ELSE [c EXCEPT !.sent = Append(@, ProjectsRequest),
                       !.raised = IF json THEN NoOutcome
                                  ELSE Raised("TaxiException",
                                              "Unexpected response from the server")]

\* The host starts a command that is not a push: what the model keeps of the
\* last call is dropped
StartCommand ==
    /\ alias_role_id' = PyNone
    /\ role_id' = PyNone
    /\ requests' = <<>>
    /\ responses' = <<>>
    /\ role_prompts' = 0
    /\ invalid_inputs' = 0
    /\ persist_prompts' = 0
    /\ selected_input' = NoInput
    /\ persist_answer' = ""
    /\ outcome' = NoOutcome
    /\ at_call' = [Snapshot(entry) EXCEPT !.previous = NoPrevious]
    /\ shown' = <<>>
    /\ UNCHANGED <<backend_vars, alias_vars, entry, prompt_vars, other_vars>>

\* A method of the backend has run to `call`: the backend and the requests
\* are as it left them; it raised, which ends the command, or the command
\* goes on with `next_step`
Step(call, next_step) ==
    /\ authenticated' = call.authenticated
    /\ user_info' = call.user_info
    /\ requests' = requests \o call.sent
    /\ IF call.raised # NoOutcome
       THEN End(call.raised)
       ELSE pc' = next_step /\ UNCHANGED outcome

call_vars ==
    <<entry, alias_role_id, role_id, responses, role_prompts, invalid_inputs,
      persist_prompts, selected_input, persist_answer, at_call>>

\* commands.hours_to_days: (days, hours) of an amount of hours
hours_to_days(hours) == <<hours \div 8, hours % 8>>

\* commands.signed_number: the number with '+' in front when it is positive
signed_number(number) == <<IF number <= 0 THEN "" ELSE "+", number>>

RECURSIVE SumOver(_, _)
\* The sum of f[x] for the x of `keys`
SumOver(f, keys) ==
    IF keys = {}
    THEN 0
    ELSE LET x == CHOOSE y \in keys : TRUE
         IN  f[x] + SumOver(f, keys \ {x})

\* balance, entries_filter_callback and get_hours_by_callback: the hours of
\* the local entries not pushed yet whose alias is mapped to a Zebra backend
hours_to_be_pushed ==
    SumOver(timesheet, {a \in DOMAIN timesheet :
                           /\ a \in DOMAIN aliases_database
                           /\ aliases_database[a].backend = "zebra"})

\* The figures of the account in the user info: the hours balance and the
\* vacation left, in hours
AccountFigures == [balance |-> 0 - 1, vacation |-> 20]

\* The lists of times /timesheets may report for the week
TimesheetLists == {<<>>, <<1>>, <<2, 1>>}

RECURSIVE SumSeq(_)
SumSeq(seq) == IF seq = <<>> THEN 0 ELSE Head(seq) + SumSeq(Tail(seq))

\* The lines balance echoes
BalanceLines(times) ==
    <<  <<"Hours balance: ", signed_number(AccountFigures.balance)>>,
        <<"Hours balance after push: ",
          signed_number(AccountFigures.balance + hours_to_be_pushed)>>,
        <<"Hours done this week: ", SumSeq(times)>>,
        <<"Vacation left: ", hours_to_days(AccountFigures.vacation)>>  >>

\* The host runs the balance command: it reads the local timesheet.
Balance ==
    /\ pc = "idle"
    /\ pc' = "balance_user_info"
    /\ StartCommand

\* balance: user_info = backend.get_user_info()
BalanceUserInfo(login_json, json) ==
    /\ pc = "balance_user_info"
    /\ Step(get_user_info(Called, login_json, json), "balance_timesheets")
    /\ UNCHANGED <<password, alias_vars, call_vars, shown, prompt_vars, other_vars>>

\* balance: timesheets = backend.get_timesheets(first day, last day of the
\* week), then the summary is echoed
BalanceTimesheets(login_json, json, times) ==
    /\ pc = "balance_timesheets"
    /\ LET call == get_timesheets(Called, login_json, json)
       IN  /\ authenticated' = call.authenticated
           /\ user_info' = call.user_info
           /\ requests' = requests \o call.sent
           /\ IF call.raised # NoOutcome
              THEN End(call.raised) /\ UNCHANGED shown
              ELSE End(Returned("None")) /\ shown' = BalanceLines(times)
    /\ UNCHANGED <<password, alias_vars, call_vars, prompt_vars, other_vars>>

\* The host updates its projects: it calls get_projects().
GetProjects ==
    /\ pc = "idle"
    /\ pc' = "get_projects"
    /\ StartCommand

\* get_projects: the request and its answer
FetchProjects(login_json, json) ==
    /\ pc = "get_projects"
    /\ LET call == get_projects(Called, login_json, json)
       IN  /\ authenticated' = call.authenticated
           /\ user_info' = call.user_info
           /\ requests' = requests \o call.sent
           /\ End(IF call.raised # NoOutcome THEN call.raised
                  ELSE Returned("projects"))
    /\ UNCHANGED <<password, alias_vars, call_vars, shown, prompt_vars, other_vars>>

NextOps ==
    \/ Next
    \/ Balance
    \/ \E login_json, json \in BOOLEAN : BalanceUserInfo(login_json, json)
    \/ \E login_json, json \in BOOLEAN, times \in TimesheetLists :
          BalanceTimesheets(login_json, json, times)
    \/ GetProjects
    \/ \E login_json, json \in BOOLEAN : FetchProjects(login_json, json)

\* The run starts with aliases that hold no role
InitOps ==
    /\ HostInit
    /\ Len(aliases_database["alias1"].mapping) = 2
    /\ PromptIdle(<<>>)
    /\ timesheet = OneEntryEach
    /\ NoParams

SpecOps == InitOps /\ [][NextOps]_vars

\* ------------------------------------------------- vocabulary of the claims

IsPush(request) == request.kind = "push"

\* The timesheet pushes the running (or last) call has sent, in order
Pushes == SelectSeq(requests, IsPush)

BodyHas(body, key) == \E pair \in body : pair[1] = key

\* The text a form body carries for `key`, "" when it does not carry the key
BodyValue(body, key) ==
    IF BodyHas(body, key) THEN (CHOOSE pair \in body : pair[1] = key)[2] ELSE ""

\* The call has ended, by a return or by an exception
Ended == pc \in {"idle", "crashed"} /\ outcome # NoOutcome

\* The mapping of the entry's alias as push_entry was called
CalledMapping == at_call.aliases_database[entry].mapping

CalledWithRole == Len(CalledMapping) = 3 /\ CalledMapping[3].s # "0"

CalledWithoutRole == Len(CalledMapping) = 2

CalledWithSentinel == Len(CalledMapping) = 3 /\ CalledMapping[3].s = "0"

\* The server rejected the first push of the call with errorCode role_needed
FirstRejectedRoleNeeded ==
    /\ Len(responses) >= 1
    /\ ~responses[1].ok
    /\ responses[1].json
    /\ responses[1].errorCode = "role_needed"

\* The server accepted the first push of the call
FirstAccepted ==
    /\ Len(responses) >= 1
    /\ responses[1].ok
    /\ responses[1].json
    /\ responses[1].success = "true"

\* The id of the role listed at position k (from 0) of the role prompt: the
\* role with exactly k roles before it in the alphabetical order of the names
RoleListedAt(k) ==
    CHOOSE id \in RoleIds :
        Cardinality({other \in RoleIds :
                        other # id /\ NameLeq(RoleName(other), RoleName(id))}) = k

\* The user ended the role prompt by entering the index of a listed role
SelectedARole ==
    /\ ~selected_input.abort
    /\ selected_input.text \in {Dec(k) : k \in 0..(NumRoles - 1)}

SelectedRoleId == RoleListedAt(Num(selected_input.text))

\* The user ended the role prompt with the key of "Individual action"
SelectedIndividualAction == ~selected_input.abort /\ selected_input.text = "i"

\* The user ended the role prompt with the key of "Cancel", or aborted it
SelectedCancel == selected_input.abort \/ selected_input.text = "c"

\* ------------------------------------------------------------------ claims

\* C1 as stated: for an entry whose alias carries a role id, push_entry sends
\* its push with that role id and never opens the role prompt, whatever the
\* server answers.
C1_AsStated ==
    CalledWithRole =>
        /\ \A i \in 1..Len(Pushes) :
              BodyValue(Pushes[i].body, "role_id") = CalledMapping[3].s
        /\ role_prompts = 0

\* C1 (amended): for an entry whose alias carries a role id, the first push of
\* push_entry carries that role id, and the role prompt is opened at most once
\* and only after the server has rejected that push with errorCode role_needed;
\* when the server answers anything else, no prompt is opened and no other
\* push is sent.
C1_RoleBearingAlias ==
    CalledWithRole =>
        /\ Len(Pushes) >= 1 =>
              /\ BodyHas(Pushes[1].body, "role_id")
              /\ BodyValue(Pushes[1].body, "role_id") = CalledMapping[3].s
              /\ ~BodyHas(Pushes[1].body, "individual_action")
        /\ role_prompts = (IF FirstRejectedRoleNeeded THEN 1 ELSE 0)
        /\ ~FirstRejectedRoleNeeded => Len(Pushes) <= 1 /\ persist_prompts = 0

C1_Witness ==
    /\ CalledWithRole
    /\ pc = "idle"
    /\ outcome.exc = "return"
    /\ FirstAccepted
    /\ Len(Pushes) = 1
    /\ BodyValue(Pushes[1].body, "role_id") = "2"
    /\ role_prompts = 0

\* C2 as stated: when the alias has no role and the server rejects the first
\* push with role_needed, the call opens the role prompt exactly once and sends
\* exactly one retry push.
C2_AsStated ==
    (CalledWithoutRole /\ FirstRejectedRoleNeeded /\ Ended) =>
        /\ role_prompts = 1
        /\ Len(Pushes) = 2

\* The role resolution of the call was given up: the user cancelled, or the
\* configuration could not be written
GivenUp == outcome = Skipped \/ outcome.exc = "IOError"

\* C2 (amended): when the alias has no role and the server rejects the first,
\* role-less push with role_needed, the call opens the role prompt exactly
\* once and sends at most one retry push, so at most two pushes per entry even
\* if the retry is rejected again; it sends exactly one retry unless the user
\* cancels at a prompt or writing the configuration fails, and then none.
C2_OnePromptOneRetry ==
    (CalledWithoutRole /\ FirstRejectedRoleNeeded) =>
        /\ ~BodyHas(Pushes[1].body, "role_id")
        /\ role_prompts = 1
        /\ Len(Pushes) <= 2
        /\ Len(responses) = Len(Pushes)
        /\ Ended => (Len(Pushes) = 2 <=> ~GivenUp)
        /\ Ended /\ selected_input.text = "c" => Len(Pushes) = 1

C2_Witness ==
    /\ CalledWithoutRole
    /\ FirstRejectedRoleNeeded
    /\ Ended
    /\ role_prompts = 1
    /\ Len(Pushes) = 2
    /\ ~responses[2].ok
    /\ responses[2].errorCode = "role_needed"

\* C3: when the user selects a role R at the role prompt, the retry push
\* carries role_id = R's id and individual_action = false, for every role R of
\* the user's role list.
C3_RetryCarriesSelectedRole ==
    (SelectedARole /\ Len(Pushes) = 2) =>
        /\ BodyValue(Pushes[2].body, "role_id") = Dec(SelectedRoleId)
        /\ BodyValue(Pushes[2].body, "individual_action") = "false"

C3_Witness ==
    /\ SelectedARole
    /\ SelectedRoleId = 1
    /\ Len(Pushes) = 2
    /\ responses[2] = Accepted
    /\ outcome = Returned(RoleName(1))

\* C4: when the user declines all roles at the role prompt (individual
\* action), the retry push carries individual_action = true and no role_id
\* parameter, for an alias without a role and for an alias whose role is the
\* never-ask sentinel alike; and a retry is sent.
C4_IndividualAction ==
    SelectedIndividualAction =>
        /\ pc \in {"retry", "idle", "crashed"}
        /\ persist_prompts = 0
        /\ Len(Pushes) = 2 =>
              /\ BodyValue(Pushes[2].body, "individual_action") = "true"
              /\ ~BodyHas(Pushes[2].body, "role_id")
        /\ Ended => Len(Pushes) = 2

C4_Witness ==
    /\ SelectedIndividualAction
    /\ CalledWithSentinel
    /\ Len(Pushes) = 2
    /\ responses[2] = Accepted
    /\ outcome = Returned("individual action")

\* C5: when the server accepts the first push of an entry, push_entry never
\* opens the role prompt and sends exactly one push; the role prompt is opened
\* only after a push was rejected with a role error code.
C5_NoPromptWhenAccepted ==
    /\ (Len(responses) >= 1 /\ responses[1].ok) =>
          /\ role_prompts = 0
          /\ persist_prompts = 0
          /\ Len(Pushes) = 1
          /\ Ended
    /\ role_prompts > 0 =>
          /\ Len(responses) >= 1
          /\ ~responses[1].ok
          /\ responses[1].errorCode \in {"role_needed", "role_invalid"}

C5_Witness ==
    /\ CalledWithoutRole
    /\ FirstAccepted
    /\ responses[1].errorCode = ""
    /\ pc = "idle"
    /\ outcome = Returned("individual action")
    /\ Len(Pushes) = 1
    /\ role_prompts = 0

\* C6 as stated: for an entry whose alias role is the never-ask sentinel ("0")
\* and whose push the server accepts, the single push request carries neither
\* a role_id nor an individual_action parameter.
C6_AsStated ==
    (CalledWithSentinel /\ FirstAccepted) =>
        /\ Len(Pushes) = 1
        /\ ~BodyHas(Pushes[1].body, "role_id")
        /\ ~BodyHas(Pushes[1].body, "individual_action")

\* C7 as stated: a push rejected with errorCode role_invalid opens the role
\* prompt, like role_needed, instead of failing the entry.
C7_AsStated ==
    (/\ Len(responses) >= 1
     /\ ~responses[1].ok
     /\ responses[1].json
     /\ responses[1].errorCode = "role_invalid") =>
        /\ role_prompts = 1
        /\ outcome.exc # "PushEntryFailed" \/ Len(Pushes) = 2

\* The user cancelled the role resolution of the call
Cancelled == SelectedCancel \/ persist_answer = "abort"

\* C8: when the user cancels during role resolution (the cancel option or an
\* aborted input at the role prompt, an aborted input at the persistence
\* prompt), push_entry raises PushEntryFailed("Skipped") for that entry only:
\* no retry push is sent, the alias mappings are as they were when the call
\* started, and push_entry can be called for any other entry.
C8_CancelSkipsEntry ==
    Cancelled =>
        /\ outcome = Raised("PushEntryFailed", "Skipped")
        /\ pc = "idle"
        /\ Len(Pushes) = 1
        /\ aliases_database = at_call.aliases_database
        /\ settings = at_call.settings
        /\ config = at_call.config
        /\ \A alias \in Aliases : ENABLED PushEntry(alias)

C8_Witness ==
    /\ persist_answer = "abort"
    /\ SelectedARole
    /\ outcome = Raised("PushEntryFailed", "Skipped")
    /\ Len(Pushes) = 1
    /\ Len(aliases_database[entry].mapping) = 2

\* The entry's alias was given a role by a 'y' earlier in the run
PersistedBefore == at_call.last_answer[entry].answer = "y"

\* 'y' at the persistence prompt stores (project_id, activity_id, chosen role)
C9_MappingStored ==
    persist_answer = "y" =>
        /\ SelectedARole
        /\ Len(aliases_database[entry].mapping) = 3
        /\ aliases_database[entry].mapping[1] = CalledMapping[1]
        /\ aliases_database[entry].mapping[2] = CalledMapping[2]
        /\ aliases_database[entry].mapping[3].s = Dec(SelectedRoleId)
        /\ aliases_database[entry].backend = at_call.aliases_database[entry].backend
        /\ last_answer[entry].role.s = Dec(SelectedRoleId)

\* The first push of a later entry of the alias carries the stored role
C9_LaterPushCarriesRole ==
    PersistedBefore =>
        /\ CalledMapping[3] = at_call.last_answer[entry].role
        /\ Len(Pushes) >= 1 =>
              BodyValue(Pushes[1].body, "role_id") = at_call.last_answer[entry].role.s

\* C9 as stated: after a role was selected and 'y' answered, the alias mapping
\* is (project_id, activity_id, chosen role id), and a later push_entry of the
\* alias sends that role id and does not prompt again.
C9_AsStated ==
    /\ C9_MappingStored
    /\ C9_LaterPushCarriesRole
    /\ PersistedBefore => role_prompts = 0

\* C9 (amended): after a role was selected and 'y' answered, the alias mapping
\* is (project_id, activity_id, chosen role id), and the first push of any
\* later push_entry of the alias in the run carries that role id; that call
\* opens no prompt unless the server rejects this push with role_needed.
C9_PersistedRole ==
    /\ C9_MappingStored
    /\ C9_LaterPushCarriesRole
    /\ PersistedBefore =>
          /\ role_prompts = (IF FirstRejectedRoleNeeded THEN 1 ELSE 0)
          /\ ~FirstRejectedRoleNeeded => persist_prompts = 0 /\ Len(Pushes) <= 1

C9_Witness ==
    /\ PersistedBefore
    /\ FirstAccepted
    /\ outcome.exc = "return"
    /\ Len(Pushes) = 1
    /\ role_prompts = 0

\* The user answered 'N' for the entry's alias earlier in the run
NeverBefore == at_call.last_answer[entry].answer = "N"

\* C10: once the user has answered 'N' for an alias, the alias mapping holds
\* the never-ask sentinel as role, and for every later entry of the alias in
\* the run the persistence prompt is not shown, even when a role is selected
\* at the role prompt.
C10_NeverAskAgain ==
    /\ persist_answer = "N" =>
          /\ aliases_database[entry].mapping =
                <<CalledMapping[1], CalledMapping[2], PyInt(0)>>
          /\ last_answer[entry].answer = "N"
    /\ \A alias \in Aliases :
          last_answer[alias].answer = "N" =>
              /\ Len(aliases_database[alias].mapping) = 3
              /\ aliases_database[alias].mapping[3].s = "0"
    /\ NeverBefore =>
          /\ persist_prompts = 0
          /\ persist_answer = ""
          /\ (SelectedARole /\ Ended) => Len(Pushes) = 2

C10_Witness ==
    /\ NeverBefore
    /\ SelectedARole
    /\ Len(Pushes) = 2
    /\ BodyValue(Pushes[2].body, "role_id") = "1"
    /\ outcome = Returned(RoleName(1))
    /\ persist_prompts = 0

\* The role element of the mapping of `alias` in `db` is the never-ask
\* sentinel: the text 0
HoldsSentinel(db, alias) ==
    /\ Len(db[alias].mapping) = 3
    /\ db[alias].mapping[3].s = "0"

\* C11 as stated: over any sequence of push_entry calls, an alias whose mapping
\* holds the never-ask sentinel as role keeps that sentinel; no step of the
\* role resolution overwrites it with a role id.
C11_AsStated ==
    [][\A alias \in Aliases :
          HoldsSentinel(aliases_database, alias) =>
              HoldsSentinel(aliases_database', alias)]_vars

\* C12 as stated: a confirmed role persistence reaches the persisted
\* configuration atomically with the in-memory alias database: in no reachable
\* state, a failed write of the configuration included, does the in-memory
\* mapping of an alias differ from its persisted mapping.
C12_AsStated ==
    \A alias \in Aliases :
        /\ aliases_database[alias] = config[alias]
        /\ settings[alias] = config[alias]

\* C13: when the user selects a role and answers 'n' at the persistence
\* prompt, the alias database, the settings and the configuration stay as they
\* were when the call started, the retry push is sent and carries the selected
\* role; and the next call for an entry of the same alias opens the role
\* prompt again when its first push is rejected with role_needed.
C13_DeclinedPersistence ==
    /\ persist_answer = "n" =>
          /\ SelectedARole
          /\ aliases_database = at_call.aliases_database
          /\ settings = at_call.settings
          /\ config = at_call.config
          /\ pc \in {"retry", "idle", "crashed"}
          /\ Len(Pushes) <= 2
          /\ Len(Pushes) = 2 =>
                /\ BodyValue(Pushes[2].body, "role_id") = Dec(SelectedRoleId)
                /\ BodyValue(Pushes[2].body, "individual_action") = "false"
          /\ Ended => Len(Pushes) = 2
    /\ at_call.previous.declined =>
          /\ FirstRejectedRoleNeeded => role_prompts = 1
          /\ (FirstRejectedRoleNeeded /\ SelectedARole) => persist_prompts = 1

C13_Witness ==
    /\ at_call.previous.declined
    /\ at_call.previous.pushed = PyInt(1)
    /\ CalledWithoutRole
    /\ FirstRejectedRoleNeeded
    /\ ~BodyHas(Pushes[1].body, "role_id")
    /\ role_prompts = 1
    /\ pc = "input_role"

\* ---------------------------------------- claims on the role prompt of ui.py

\* The empty input: the user presses Enter at "Select a role"
EmptyInput == [abort |-> FALSE, text |-> "", brackets |-> FALSE]

\* The role prompt of the running (or last) prompt_role call has ended
PromptEnded == selected_role # NoSelection

\* The latest-role endpoint reported a role that is among the user's roles
LatestIsAvailable == \E i \in 1..Len(prompt_roles) : prompt_roles[i].id = latest

\* The role of the user with the id the endpoint reported
LatestRole == CHOOSE role \in {prompt_roles[i] : i \in 1..Len(prompt_roles)} :
                  role.id = latest

C16_AsStated ==
    (pc = "input_role" /\ at_call.previous.pushed # PyNone) =>
        input_role(user_roles, EmptyInput) =
            [kind |-> "return", value |-> at_call.previous.pushed]

\* The texts the value returned by push_entry is made of: it is
\* "individual action" or names the role
ReturnedTexts == {outcome.value}

\* C17 as stated: when a successful push response carries server messages,
\* the value push_entry returns contains the text of every such message.
C17_AsStated ==
    (outcome.exc = "return" /\ Len(responses) >= 1) =>
        LET response == responses[Len(responses)]
        IN  \A i \in 1..Len(response.messages) :
                response.messages[i] \in ReturnedTexts

\* The roles of the user
UserRoles == {prompt_roles[i] : i \in 1..Len(prompt_roles)}

\* The role listed at position k (from 0) of the role prompt: the role with
\* exactly k roles of the user before it in the alphabetical order of the names
ListedAt(k) ==
    CHOOSE role \in UserRoles :
        Cardinality({other \in UserRoles :
                        /\ other # role
                        /\ NameLeq(other.full_name, role.full_name)}) = k

\* The role list as the dict of id and name backend.input_role is given
RolesDict == [id \in {Num(role.id.s) : role \in UserRoles} |-> RoleName(id)]

\* The user enters `text`
Typed(text) == [abort |-> FALSE, text |-> text, brackets |-> FALSE]

\* C18: the role prompt lists the roles in the alphabetical order of their
\* names, each under its position as key, followed by the separator and the
\* options "Individual action" (key 'i') and "Cancel" (key 'c'); entering the
\* position of a role returns that role, entering 'i' returns None and
\* entering 'c' cancels, for every role list the prompt is opened with, in
\* ui.py and in backend.py.
C18_RoleListing ==
    LET options == RoleOptions(prompt_roles)
        n == Len(prompt_roles)
    IN  /\ prompt_pc = "input_role" =>
              /\ Len(options) = n + 3
              /\ \A k \in 0..(n - 1) :
                    /\ options[k + 1].value = ListedAt(k)
                    /\ options[k + 1].label = ListedAt(k).full_name
                    /\ get_option_key(k, options[k + 1]) = PyInt(k)
                    /\ ui_input_role(prompt_roles, default_role, Typed(Dec(k))) =
                          [kind |-> "return", value |-> ListedAt(k)]
                    /\ input_role(RolesDict, Typed(Dec(k))) =
                          [kind |-> "return", value |-> ListedAt(k).id]
              /\ \A i, j \in 1..n :
                    i < j => NameLeq(options[i].label, options[j].label)
              /\ options[n + 2].label = "Individual action"
              /\ get_option_key(n + 1, options[n + 2]) = PyStr("i")
              /\ options[n + 3].label = "Cancel, skip this entry for now"
              /\ get_option_key(n + 2, options[n + 3]) = PyStr("c")
              /\ ui_input_role(prompt_roles, default_role, Typed("i")) =
                    [kind |-> "return", value |-> PyNone]
              /\ ui_input_role(prompt_roles, default_role, Typed("c")).kind =
                    "CancelInput"
              /\ input_role(RolesDict, Typed("i")) =
                    [kind |-> "return", value |-> PyNone]
              /\ input_role(RolesDict, Typed("c")).kind = "CancelInput"
        /\ (PromptEnded /\ ~prompt_input.abort) =>
              /\ prompt_input.text \in {Dec(k) : k \in 0..(n - 1)} =>
                    selected_role =
                        [kind |-> "return", value |-> ListedAt(Num(prompt_input.text))]
              /\ prompt_input.text = "i" =>
                    selected_role = [kind |-> "return", value |-> PyNone]
              /\ prompt_input.text = "c" => selected_role.kind = "CancelInput"

C18_Witness ==
    /\ Len(prompt_roles) = NumRoles
    /\ prompt_roles[1] = Role(1)
    /\ PromptEnded
    /\ prompt_input = Typed("0")
    /\ selected_role = [kind |-> "return", value |-> Role(NumRoles)]
    /\ prompt_pc = "create_alias"

\* --------------------------------------------- claims on push_entry, again

\* The texts that are the position of a listed role or the key of an option
ValidKeys == {Dec(k) : k \in 0..(NumRoles - 1)} \cup {"i", "c"}

\* The role prompt of the call has ended
RolePromptEnded == role_prompts = 1 /\ pc # "input_role"

\* An input at the open role prompt either leaves it open, and then nothing
\* but the count of the inputs changes, or ends it, and then it was an aborted
\* input or the position or key of a listed option
RePrompts ==
    pc = "input_role" =>
        \/ /\ pc' = "input_role"
           /\ invalid_inputs' = invalid_inputs + 1
           /\ UNCHANGED <<aliases_database, settings, config, requests, responses,
                          role_id, role_prompts, persist_prompts, outcome>>
        \/ /\ pc' # "input_role"
           /\ selected_input'.abort \/ selected_input'.text \in ValidKeys

\* C19: the role prompt asks again on every invalid input: it returns only on
\* an input that is the position or the key of a listed option (or is left by
\* an aborted input), it returns the value of the first such input, and while
\* it asks again no alias mapping changes and no request is sent.
C19_RePromptsOnInvalidInput ==
    /\ [](pc = "input_role" =>
            \A input \in RoleInputs :
                input_role(user_roles, input).kind = "again"
                    <=> (~input.abort /\ input.text \notin ValidKeys))
    /\ []((RolePromptEnded /\ ~selected_input.abort) =>
            /\ selected_input.text \in ValidKeys
            /\ SelectedARole => role_id = PyInt(SelectedRoleId)
            /\ SelectedIndividualAction => role_id = PyNone
            /\ selected_input.text = "c" => outcome = Skipped)
    /\ [][RePrompts]_vars

C19_Witness ==
    /\ pc = "input_role"
    /\ invalid_inputs = MaxInvalidInputs
    /\ Len(Pushes) = 1
    /\ aliases_database = at_call.aliases_database
    /\ CalledWithoutRole

\* The first push of the call failed, and not for the role: the answer is not
\* JSON, or it is JSON, not a success, and its error code is not a role's
FirstFailedNotForRole ==
    /\ Len(responses) >= 1
    /\ \/ ~responses[1].json
       \/ /\ responses[1].success # "true"
          /\ responses[1].errorCode \notin {"role_needed", "role_invalid"}

\* C20 as stated: a push failure that is not role-related ends the call with
\* PushEntryFailed, never with another exception: a non-JSON answer raises
\* PushEntryFailed, and a JSON answer that is not a success, with or without
\* a 'success' field, raises PushEntryFailed with the server's error text or
\* "Unknown error"; no role prompt is opened and no second push is sent.
C20_AsStated ==
    FirstFailedNotForRole =>
        /\ Ended
        /\ outcome.exc = "PushEntryFailed"
        /\ responses[1].json =>
              outcome.value = (IF responses[1].error = ""
                               THEN "Unknown error"
                               ELSE responses[1].error)
        /\ role_prompts = 0
        /\ Len(Pushes) = 1

\* ------------------------------ claims on the operations of the backend

\* The requests a step sends: those it appends to the requests of the running
\* call, all the requests there are when it is the first step of a call
SentNow ==
    IF Len(requests') >= Len(requests)
          /\ SubSeq(requests', 1, Len(requests)) = requests
    THEN SubSeq(requests', Len(requests) + 1, Len(requests'))
    ELSE requests'

\* The positions of the balance command
BalanceSteps == {"balance_user_info", "balance_timesheets"}

\* The kinds of request that read from the remote service
Reads == {"login", "user_info", "timesheets"}

\* C21: every step of the balance command leaves the alias database, the
\* settings, the configuration file and the local timesheet as they are, and
\* the requests it sends are a login, a user-info or a timesheet-list
\* request, never a timesheet push.
C21_BalanceOnlyReads ==
    [][(pc \in BalanceSteps \/ pc' \in BalanceSteps) =>
          /\ UNCHANGED <<aliases_database, settings, config, timesheet>>
          /\ \A i \in 1..Len(SentNow) :
                /\ SentNow[i].kind \in Reads
                /\ ~IsPush(SentNow[i])]_vars

\* The balance command has run to its end with a password configured: it has
\* sent a login, a user-info and a timesheet-list request and echoed its lines
C21_Witness ==
    /\ pc = "idle"
    /\ outcome = Returned("None")
    /\ Len(requests) = 3
    /\ requests[3].kind = "timesheets"
    /\ requests[1].kind = "login"
    /\ Len(shown) = 4

\* A request to the API of the remote service: a push or a read of the user
\* info, the projects or the timesheets
IsApi(request) == request.kind \in {"push", "user_info", "projects", "timesheets"}

IsLogin(request) == request.kind = "login"

LoginFailed ==
    Raised("TaxiException", "Login failed, please check your credentials")

\* With a password, an API request is among the requests of a call only when
\* the backend is authenticated, and no login request follows it
LoginBeforeApi ==
    password =>
        \A i \in 1..Len(requests) :
            IsApi(requests[i]) =>
                /\ authenticated
                /\ \A j \in (i + 1)..Len(requests) : ~IsLogin(requests[j])

\* A login request answered by something that is not JSON is the last
\* request of its call, which has ended with TaxiException, and the backend is
\* not authenticated; a call ends so only when its only request is such a login
FailedLoginSendsNothing ==
    /\ \A i \in 1..Len(requests) :
          (IsLogin(requests[i]) /\ ~requests[i].json) =>
              /\ outcome = LoginFailed
              /\ ~authenticated
              /\ \A j \in 1..Len(requests) : ~IsApi(requests[j])
    /\ outcome = LoginFailed => requests = <<LoginRequest(FALSE)>>

\* A step of an authenticated backend sends no login request and leaves it
\* authenticated
LoginOnlyOnce ==
    authenticated =>
        /\ authenticated'
        /\ \A i \in 1..Len(SentNow) : ~IsLogin(SentNow[i])

\* C22: with a password, every API request (push, user info, projects,
\* timesheets) is sent by an authenticated backend, after the login; a login
\* answered by something that is not JSON raises TaxiException("Login
\* failed..."), leaves the backend unauthenticated and is the only request of
\* the call; an authenticated backend stays so and sends no login request,
\* over every sequence of push_entry, balance and get_projects calls.
C22_LoginBeforeApiAndOnce ==
    /\ []LoginBeforeApi
    /\ []FailedLoginSendsNothing
    /\ [][LoginOnlyOnce]_vars

\* A call of get_projects on a backend with a password that an earlier call
\* has authenticated: it has sent its API request and no login request
C22_Witness ==
    /\ password
    /\ authenticated
    /\ outcome = Returned("projects")
    /\ Len(requests) = 1
    /\ requests[1].kind = "projects"

\* A call has ended by the failure of the login
C22_WitnessFailedLogin == outcome = LoginFailed /\ pc = "crashed"

\* The values the query string of `url` carries for the parameter `param`
QueryValues(url, param) == {pair[2] : pair \in {q \in url.query : q[1] = param}}

\* C23: a backend without a password sends no login request and every API
\* request it sends goes to a URL whose query carries the parameter token,
\* once, with the username as value; a backend with a password sends no API
\* request to a URL that carries a token parameter.
C23_TokenIffNoPassword ==
    \A i \in 1..Len(requests) :
        /\ ~password =>
              /\ ~IsLogin(requests[i])
              /\ IsApi(requests[i]) =>
                    QueryValues(requests[i].url, "token") = {username}
        /\ (password /\ IsApi(requests[i])) =>
              QueryValues(requests[i].url, "token") = {}

\* The balance command has run on a backend without a password: its two
\* requests carry the token, the second one next to the dates of the week
C23_Witness ==
    /\ ~password
    /\ outcome = Returned("None")
    /\ Len(requests) = 2
    /\ requests[1].kind = "user_info"
    /\ requests[2].kind = "timesheets"
    /\ requests[2].url.query = Week \cup {<<"token", username>>}

IsUserInfo(request) == request.kind = "user_info"

\* A step of a backend that holds the user info keeps it as it is and sends
\* no user-info request
UserInfoKept ==
    user_info # <<>> =>
        /\ user_info' = user_info
        /\ \A i \in 1..Len(SentNow) : ~IsUserInfo(SentNow[i])

\* C24: once a call of get_user_info has got the user info, no step of a
\* later push_entry, balance or get_projects call sends a user-info request,
\* and the user info, with it the role list, stays what it was; a call sends
\* at most one user-info request.
C24_UserInfoFetchedOnce ==
    /\ [][UserInfoKept]_vars
    /\ [](Cardinality({i \in 1..Len(requests) : IsUserInfo(requests[i])}) <= 1)

\* The balance command has run on a backend that had the user info from an
\* earlier call: get_user_info has sent nothing, the only request is the one
\* of get_timesheets
C24_Witness ==
    /\ outcome = Returned("None")
    /\ user_info = <<ServerRoles>>
    /\ Len(requests) = 1
    /\ requests[1].kind = "timesheets"

\* ------------------------------------------- claims on the alias mappings

\* From `old` to `new`, the mapping of every alias keeps its project id, its
\* activity id and its backend, and the mapping of every alias but `alias`
\* is the same
OnlyRoleOf(alias, old, new) ==
    /\ DOMAIN new = DOMAIN old
    /\ \A a \in DOMAIN old :
          /\ new[a].backend = old[a].backend
          /\ SubSeq(new[a].mapping, 1, 2) = SubSeq(old[a].mapping, 1, 2)
          /\ Len(new[a].mapping) \in {2, 3}
          /\ a # alias => new[a] = old[a]

\* C25: every step of push_entry leaves, in the alias database, in the
\* settings and in the configuration file, the project id, the activity id
\* and the backend of every alias as they are, and the whole mapping of every
\* alias that is not the alias of the entry being pushed; hence after any
\* sequence of calls they are what they were at the start.
C25_OnlyRoleOfEntryAlias ==
    [][/\ OnlyRoleOf(entry, aliases_database, aliases_database')
       /\ OnlyRoleOf(entry, settings, settings')
       /\ OnlyRoleOf(entry, config, config')]_vars

\* A call for an entry of the second alias has stored a role in its mapping
\* and left the mapping of the first alias alone
C25_Witness ==
    /\ entry = "alias2"
    /\ persist_answer = "y"
    /\ outcome.exc = "return"
    /\ aliases_database["alias2"].mapping = OtherMapping \o <<role_id>>
    /\ aliases_database["alias1"] = at_call.aliases_database["alias1"]
    /\ config = aliases_database

\* ------------------------------------ claims on the separator of the prompt

\* The position of the separator line in the listing of the role prompt: it
\* follows the roles
SeparatorPosition == Len(prompt_roles)

\* C26 as stated: the separator line of the role prompt is not selectable:
\* entering its position asks again, and the prompt of ui.py returns None
\* (individual action) only when the user entered 'i'.
C26_AsStated ==
    /\ prompt_pc = "input_role" =>
          ui_input_role(prompt_roles, default_role,
                        Typed(Dec(SeparatorPosition))).kind = "again"
    /\ (PromptEnded /\ selected_role = [kind |-> "return", value |-> PyNone]) =>
          prompt_input = Typed("i")

\* The same for the prompt of backend.py: entering the position of the
\* separator asks again, and input_role returns None only for 'i'
SeparatorOfBackendNotSelectable ==
    /\ pc = "input_role" =>
          input_role(user_roles, Typed(Dec(NumRoles))).kind = "again"
    /\ (RolePromptEnded /\ ~SelectedCancel /\ role_id = PyNone) =>
          selected_input = Typed("i")

\* ------------------------------------------------------- to_zebra_params

\* The names of the parameters of a dict handed to to_zebra_params
ParamKeys == {"individual_action", "role_id", "time"}

\* The values they may have: booleans, the integers 0 and 1, None, strings
ParamValues ==
    {PyBool(TRUE), PyBool(FALSE), PyInt(0), PyInt(1), PyNone,
     PyStr("true"), PyStr("")}

\* The dicts of at most MaxParams parameters
ParamDicts ==
    UNION {[keys -> ParamValues] :
              keys \in {ks \in SUBSET ParamKeys : Cardinality(ks) <= MaxParams}}

\* to_zebra_params(params) is called.
ToZebraParams ==
    /\ zebra_params = <<>>
    /\ zebra_params' = <<to_zebra_params(params)>>
    /\ UNCHANGED <<aliases_database, settings, config, backend_vars, pc, entry,
                   alias_role_id, role_id, requests, responses, role_prompts,
                   invalid_inputs, persist_prompts, selected_input,
                   persist_answer, outcome, at_call, last_answer, shown,
                   prompt_vars, timesheet, params>>

\* The run starts with any dict of parameters
InitParams ==
    /\ HostInit
    /\ ~password
    /\ Len(aliases_database["alias1"].mapping) = 2
    /\ PromptIdle(<<>>)
    /\ timesheet = OneEntryEach
    /\ params \in ParamDicts
    /\ zebra_params = <<>>

SpecParams == InitParams /\ [][ToZebraParams]_vars

\* C27: the dict to_zebra_params returns has the keys of the dict it was
\* given; under each key, a boolean has become the string 'true' or 'false'
\* according to its truth value, and every other value, the integers 0 and 1
\* and None included, is the value it was given.
C27_ToZebraParams ==
    zebra_params # <<>> =>
        /\ DOMAIN zebra_params[1] = DOMAIN params
        /\ \A key \in DOMAIN params :
              /\ params[key] = PyBool(TRUE) => zebra_params[1][key] = PyStr("true")
              /\ params[key] = PyBool(FALSE) => zebra_params[1][key] = PyStr("false")
              /\ params[key].t # "bool" => zebra_params[1][key] = params[key]

\* A dict with a boolean and the integer 1 has been transformed
C27_Witness ==
    /\ params = [individual_action |-> PyBool(TRUE), role_id |-> PyInt(1)]
    /\ zebra_params = <<[individual_action |-> PyStr("true"), role_id |-> PyInt(1)]>>


====
